---- MODULE Spec2Model ----
(***************************************************************************)
(* Forecast and pipeline-health engine of SalesBuddy                       *)
(* (client/src/lib/forecastUtils.ts), called by the manager Dashboard.     *)
(*                                                                         *)
(* Modelling conventions                                                   *)
(*  - An ISO date string is the record of its components [y, m, d, h];     *)
(*    parseISO turns it into a Date object [valid, t], t being the number  *)
(*    of ticks since 2025-01-01T00:00 local time (TicksPerDay ticks a day; *)
(*    2025 and 2026 are not leap years, daylight saving is left out).      *)
(*  - A JavaScript number that is a currency sum is an integer; a number   *)
(*    that comes out of a division is an exact fraction [n, d] in lowest   *)
(*    terms (floating-point rounding is left out), with d = 0 for the      *)
(*    values NaN (n = 0) and +/-Infinity (n = 1, n = -1).                  *)
(***************************************************************************)
EXTENDS Integers, Sequences, FiniteSets, TLC

VARIABLES
    deals,       \* the Deal[] passed to the engine (getDeals() of the store)
    history,     \* the HistoricalRevenue[] passed to the engine
    targetDate,  \* the Date passed as targetDate
    clock,       \* the system clock, read by `new Date()` inside the call
    pc,          \* "call" before the engine is called, "done" after it returned,
                 \* "stale" and "risk" once the Dashboard has also applied
                 \* isDealStale and getConcentrationRisk
    metrics,     \* the DashboardMetrics record returned by the call
    totalValue,  \* the totalValue passed to getConcentrationRisk
    staleDeals,  \* Dashboard: deals.filter(isDealStale)
    concentrationRisk, \* Dashboard: getConcentrationRisk(deals, totalValue)
    DEALS,       \* lib/mockData.ts: the module-level list of deals (the store)
    returned,    \* what the last addDeal / updateDeal call returned
    page,        \* the page that is mounted
    sameArray,   \* the page's `deals` is the very array DEALS (getDeals())
    editingDeal, \* Pipeline: the deal of the open dialog, null when closed
    isNewDeal,   \* Pipeline
    editForm,    \* Pipeline
    errors,      \* Pipeline
    selectedAccount,  \* Accounts
    isAddDealOpen,    \* Accounts
    newDealForm,      \* Accounts
    addDealErrors,    \* Accounts
    priorityDeals,    \* RepMyWeek: the ranked copy of deals
    selectedRisk,     \* Dashboard: the open risk drill-down, null when closed
    selectedCoaching  \* Dashboard: the open coaching drill-down, null when closed

\* the state of the store and of the pages other than the Dashboard's figures
pageVars == <<DEALS, returned, page, sameArray, editingDeal, isNewDeal, editForm,
              errors, selectedAccount, isAddDealOpen, newDealForm, addDealErrors,
              priorityDeals, selectedRisk,
      selectedCoaching>>

vars == <<deals, history, targetDate, clock, pc, metrics, totalValue, staleDeals,
          concentrationRisk, DEALS, returned, page, sameArray, editingDeal,
          isNewDeal, editForm, errors, selectedAccount, isAddDealOpen,
          newDealForm, addDealErrors, priorityDeals, selectedRisk,
      selectedCoaching>>

\* ---------------------------------------------------------------- bounds
MaxDeals == 2
TicksPerDay == 2
MaxHistory == 2
MaxRiskDeals == 3
MaxStore == 2
MaxTicks == 1

\* ------------------------------------------------------- program constants
STALE_THRESHOLD_DAYS == 7

\* ------------------------------------------------------------ date-fns
DaysBefore == <<0, 31, 59, 90, 120, 151, 181, 212, 243, 273, 304, 334>>
DaysIn     == <<31, 28, 31, 30, 31, 30, 31, 31, 30, 31, 30, 31>>

Iso(y, m, d, h) == [y |-> y, m |-> m, d |-> d, h |-> h]
EmptyString == Iso(0, 0, 0, 0)
InvalidDate == [valid |-> FALSE, t |-> 0]

\* parseISO: the instant an ISO string denotes, Invalid Date when it denotes none
parseISO(s) ==
    IF /\ s.m \in 1..12
       /\ s.d \in 1..DaysIn[s.m]
       /\ s.h \in 0..(TicksPerDay - 1)
       /\ s.y >= 2025
    THEN [valid |-> TRUE,
          t |-> ((s.y - 2025) * 365 + DaysBefore[s.m] + (s.d - 1)) * TicksPerDay + s.h]
    ELSE InvalidDate

getFullYear(date) == 2025 + ((date.t \div TicksPerDay) \div 365)

getMonth(date) ==
    LET doy == (date.t \div TicksPerDay) % 365
    IN  CHOOSE m \in 1..12 : DaysBefore[m] <= doy /\ doy < DaysBefore[m] + DaysIn[m]

isSameMonth(dateLeft, dateRight) ==
    /\ dateLeft.valid
    /\ dateRight.valid
    /\ getFullYear(dateLeft) = getFullYear(dateRight)
    /\ getMonth(dateLeft) = getMonth(dateRight)

\* Date.prototype.toISOString: the ISO string of an instant
toISOString(date) ==
    LET doy == (date.t \div TicksPerDay) % 365
        m == getMonth(date)
    IN  Iso(getFullYear(date), m, doy - DaysBefore[m] + 1, date.t % TicksPerDay)

\* a JavaScript number that may be NaN
NaN == [nan |-> TRUE, v |-> 0]
Num(v) == [nan |-> FALSE, v |-> v]
Leq(x, k) == (~x.nan) /\ x.v <= k
Gt(x, k) == (~x.nan) /\ x.v > k

Trunc(a, b) == IF a >= 0 THEN a \div b ELSE 0 - ((0 - a) \div b)

\* differenceInDays: the number of full days from dateRight to dateLeft
differenceInDays(dateLeft, dateRight) ==
    IF dateLeft.valid /\ dateRight.valid
    THEN Num(Trunc(dateLeft.t - dateRight.t, TicksPerDay))
    ELSE NaN

\* ------------------------------------------------- fractions (JS division)
RECURSIVE GCD(_, _)
GCD(a, b) == IF b = 0 THEN a ELSE GCD(b, a % b)
Abs(x) == IF x < 0 THEN 0 - x ELSE x
Sign(x) == IF x < 0 THEN 0 - 1 ELSE IF x > 0 THEN 1 ELSE 0

\* n / d as JavaScript computes it: NaN for 0/0, +/-Infinity for x/0
Div(n, d) ==
    IF d = 0 THEN [n |-> Sign(n), d |-> 0]
    ELSE LET g == GCD(Abs(n), Abs(d))
         IN  [n |-> (Sign(d) * n) \div g, d |-> Abs(d) \div g]
FromInt(k) == [n |-> k, d |-> 1]
IsNaN(x) == x.d = 0 /\ x.n = 0
IsFinite(x) == x.d # 0
FAbs(x) == [n |-> Abs(x.n), d |-> x.d]
FAdd(x, y) ==
    IF x.d # 0 /\ y.d # 0 THEN Div(x.n * y.d + y.n * x.d, x.d * y.d)
    ELSE IF IsNaN(x) \/ IsNaN(y) THEN [n |-> 0, d |-> 0]
    ELSE IF x.d = 0 /\ y.d = 0
         THEN (IF x.n = y.n THEN x ELSE [n |-> 0, d |-> 0])
    ELSE IF x.d = 0 THEN x ELSE y
\* x > y on numbers: false when either is NaN
FGt(x, y) ==
    IF IsNaN(x) \/ IsNaN(y) THEN FALSE
    ELSE IF x.d # 0 /\ y.d # 0 THEN x.n * y.d > y.n * x.d
    ELSE IF x.d = 0 /\ y.d = 0 THEN x.n > y.n
    ELSE IF x.d = 0 THEN x.n > 0 ELSE y.n < 0
FMulInt(x, k) ==
    IF x.d # 0 THEN Div(x.n * k, x.d)
    ELSE [n |-> x.n * Sign(k), d |-> 0]
FDivInt(x, k) ==
    IF x.d # 0 THEN Div(x.n, x.d * k)
    ELSE IF k = 0 THEN [n |-> 0, d |-> 0] ELSE [n |-> x.n * Sign(k), d |-> 0]

\* ---------------------------------------------------------------- engine
RECURSIVE SumAmount(_)
SumAmount(ds) == IF ds = <<>> THEN 0 ELSE Head(ds).amount + SumAmount(Tail(ds))

activeDeals(ds) ==
    SelectSeq(ds, LAMBDA d : d.stage # "CLOSED_WON" /\ d.stage # "CLOSED_LOST")
wonDeals(ds) == SelectSeq(ds, LAMBDA d : d.stage = "CLOSED_WON")
lostDeals(ds) == SelectSeq(ds, LAMBDA d : d.stage = "CLOSED_LOST")

winRate(ds) ==
    LET totalClosed == Len(wonDeals(ds)) + Len(lostDeals(ds))
    IN  IF totalClosed > 0
        THEN FMulInt(Div(Len(wonDeals(ds)), totalClosed), 100)
        ELSE FromInt(0)

hygienePassing(d) ==
    /\ d.stage # ""
    /\ d.confidence # ""
    /\ d.nextStep # ""
    /\ d.nextStepDate # EmptyString
    /\ d.amount > 0
    /\ d.closeDate # EmptyString

hygieneScore(ds) ==
    LET active == activeDeals(ds)
        hygienePassingCount == Len(SelectSeq(active, hygienePassing))
    IN  IF Len(active) > 0
        THEN FMulInt(Div(hygienePassingCount, Len(active)), 100)
        ELSE FromInt(100)

isFresh(d, now) == Leq(differenceInDays(now, parseISO(d.lastActivityDate)), 7)

freshnessScore(ds, now) ==
    LET active == activeDeals(ds)
        freshCount == Len(SelectSeq(active, LAMBDA d : isFresh(d, now)))
    IN  IF Len(active) > 0
        THEN FMulInt(Div(freshCount, Len(active)), 100)
        ELSE FromInt(100)

\* (variant: the errors summed with their sign)
RECURSIVE sumSignedError(_)
sumSignedError(hist) ==
    IF hist = <<>> THEN FromInt(0)
    ELSE LET record == hist[Len(hist)]
         IN  FAdd(sumSignedError(SubSeq(hist, 1, Len(hist) - 1)),
                  Div(record.actual - record.forecasted, record.actual))
RECURSIVE sumError(_)
sumError(hist) ==
    IF hist = <<>> THEN FromInt(0)
    ELSE LET record == hist[Len(hist)]
         IN  FAdd(sumError(SubSeq(hist, 1, Len(hist) - 1)),
                  FAbs(Div(record.actual - record.forecasted, record.actual)))

mape(hist) ==
    IF Len(hist) > 0
    THEN FMulInt(FDivInt(sumError(hist), Len(hist)), 100)
    ELSE FromInt(0)

momGrowth(hist) ==
    IF Len(hist) >= 2
    THEN LET lastMonth == hist[Len(hist)].actual
             prevMonth == hist[Len(hist) - 1].actual
         IN  FMulInt(Div(lastMonth - prevMonth, prevMonth), 100)
    ELSE FromInt(0)

\* (variant: no month filter)
dealsInAnyMonth(ds, target) == activeDeals(ds)
dealsInTargetMonth(ds, target) ==
    SelectSeq(activeDeals(ds), LAMBDA d : isSameMonth(parseISO(d.closeDate), target))
wonInTargetMonth(ds, target) ==
    SelectSeq(wonDeals(ds), LAMBDA d : isSameMonth(parseISO(d.closeDate), target))

realizedRevenue(ds, target) == SumAmount(wonInTargetMonth(ds, target))

daysSinceActivity(deal, now) == differenceInDays(now, parseISO(deal.lastActivityDate))
daysToNextStep(deal, now) == differenceInDays(parseISO(deal.nextStepDate), now)

isHigh(deal) == deal.confidence = "HIGH"
isMedium(deal) == deal.confidence = "MEDIUM"

\* the tests of the first forEach over dealsInTargetMonth (lines 124-156)
inCommittedValue(deal) == isHigh(deal)
inConservative(deal, now) ==
    /\ isHigh(deal)
    /\ Leq(daysToNextStep(deal, now), 14)
    /\ Leq(daysSinceActivity(deal, now), STALE_THRESHOLD_DAYS)
\* (variant: the base rule without the HIGH deals)
countedInBaseMediumOnly(deal, now) ==
    /\ isMedium(deal)
    /\ Leq(daysToNextStep(deal, now), 30)
countedInBase(deal, now) ==
    /\ isHigh(deal) \/ isMedium(deal)
    /\ Leq(daysToNextStep(deal, now), 30)

\* the tests of the second forEach (lines 160-174): inBase recomputes the rule
inBase(deal, now) ==
    /\ isHigh(deal) \/ isMedium(deal)
    /\ Leq(daysToNextStep(deal, now), 30)
\* (variant: the delta rule without the test of inBase)
inOptimisticDeltaNoBaseTest(deal, now) ==
    \/ deal.confidence = "LOW"
    \/ deal.amount > 100000 /\ deal.stage = "DISCOVERY"
inOptimisticDelta(deal, now) ==
    /\ ~inBase(deal, now)
    /\ \/ deal.confidence = "LOW"
       \/ deal.amount > 100000 /\ deal.stage = "DISCOVERY"

optimisticDelta(ds, target, now) ==
    SumAmount(SelectSeq(dealsInTargetMonth(ds, target),
                        LAMBDA d : inOptimisticDelta(d, now)))

\* (variant: the hygiene score taken over the deals of the target month)
calculateForecastMonthHygiene(ds, target, hist, now) ==
    LET inMonth == dealsInTargetMonth(ds, target)
        realized == realizedRevenue(ds, target)
        base == SumAmount(SelectSeq(inMonth, LAMBDA d : countedInBase(d, now))) + realized
    IN  [conservative     |->
             SumAmount(SelectSeq(inMonth, LAMBDA d : inConservative(d, now))) + realized,
         base             |-> base,
         optimistic       |-> base + optimisticDelta(ds, target, now),
         pipelineValue    |-> SumAmount(inMonth) + realized,
         committedValue   |-> SumAmount(SelectSeq(inMonth, inCommittedValue)) + realized,
         uncommittedValue |->
             SumAmount(SelectSeq(inMonth, LAMBDA d : ~inCommittedValue(d))),
         closedWon        |-> realized,
         mape             |-> mape(hist),
         hygieneScore     |-> hygieneScore(inMonth),
         freshnessScore   |-> freshnessScore(ds, now),
         winRate          |-> winRate(ds),
         momGrowth        |-> momGrowth(hist)]
calculateForecast(ds, target, hist, now) ==
    LET inMonth == dealsInTargetMonth(ds, target)
        realized == realizedRevenue(ds, target)
        pipelineValue == SumAmount(inMonth)
        committedValue == SumAmount(SelectSeq(inMonth, inCommittedValue))
        uncommittedValue ==
            SumAmount(SelectSeq(inMonth, LAMBDA d : ~inCommittedValue(d)))
        conservative ==
            SumAmount(SelectSeq(inMonth, LAMBDA d : inConservative(d, now))) + realized
        base == SumAmount(SelectSeq(inMonth, LAMBDA d : countedInBase(d, now))) + realized
        optimistic == base + optimisticDelta(ds, target, now)
    IN  [conservative     |-> conservative,
         base             |-> base,
         optimistic       |-> optimistic,
         pipelineValue    |-> pipelineValue + realized,
         committedValue   |-> committedValue + realized,
         uncommittedValue |-> uncommittedValue,
         closedWon        |-> realized,
         mape             |-> mape(hist),
         hygieneScore     |-> hygieneScore(ds),
         freshnessScore   |-> freshnessScore(ds, now),
         winRate          |-> winRate(ds),
         momGrowth        |-> momGrowth(hist)]

\* (variant: stale from the threshold on)
isDealStaleFromThreshold(deal, now) ==
    Gt(differenceInDays(now, parseISO(deal.lastActivityDate)), STALE_THRESHOLD_DAYS - 1)
\* isDealStale (lines 201-205); now = new Date()
isDealStale(deal, now) ==
    Gt(differenceInDays(now, parseISO(deal.lastActivityDate)), STALE_THRESHOLD_DAYS)

\* [...deals].sort((a, b) => b.amount - a.amount): a stable sort of a copy
RECURSIVE insertByAmount(_, _)
insertByAmount(sorted, deal) ==
    IF sorted = <<>> THEN <<deal>>
    ELSE IF Head(sorted).amount >= deal.amount
         THEN <<Head(sorted)>> \o insertByAmount(Tail(sorted), deal)
         ELSE <<deal>> \o sorted
RECURSIVE sortedDeals(_)
sortedDeals(ds) ==
    IF ds = <<>> THEN <<>>
    ELSE insertByAmount(sortedDeals(SubSeq(ds, 1, Len(ds) - 1)), ds[Len(ds)])

\* sortedDeals[i]?.amount || 0
amountOrZero(sorted, i) == IF i <= Len(sorted) THEN sorted[i].amount ELSE 0

\* (variant: >= 0.3 in place of > 0.3)
getConcentrationRiskAtLeast(ds, total) ==
    IF total = 0 THEN FALSE
    ELSE LET top2Total == amountOrZero(sortedDeals(ds), 1) + amountOrZero(sortedDeals(ds), 2)
         IN  ~FGt(Div(3, 10), Div(top2Total, total))
\* getConcentrationRisk (lines 211-218): the value returned
getConcentrationRisk(ds, total) ==
    IF total = 0 THEN FALSE
    ELSE LET top2Total == amountOrZero(sortedDeals(ds), 1) + amountOrZero(sortedDeals(ds), 2)
         IN  FGt(Div(top2Total, total), Div(3, 10))

\* (variant: deals.sort(...) on the caller's array)
dealsSortedInPlace(ds) == sortedDeals(ds)
\* the caller's array after getConcentrationRisk: the sort works on a copy
dealsAfterGetConcentrationRisk(ds) == ds

\* ------------------------------------------------------------ the store
\* null, and a property that is undefined
Null == [null |-> TRUE]
DealId(prefix, n) == [prefix |-> prefix, n |-> n]
UndefinedId == DealId("", 0)

\* DEALS.findIndex(d => d.id === id): the first such index (from 1), -1 when none
findIndex(store, id) ==
    IF \E i \in 1..Len(store) : store[i].id = id
    THEN CHOOSE i \in 1..Len(store) :
             store[i].id = id /\ \A j \in 1..(i - 1) : store[j].id # id
    ELSE 0 - 1

\* (variant: the properties of the stored deal win over the updates)
spreadKeepingOld(deal, updates, now) ==
    [f \in DOMAIN deal \cup DOMAIN updates \cup {"updatedAt"} |->
        IF f = "updatedAt" THEN toISOString(now)
        ELSE IF f \in DOMAIN deal THEN deal[f] ELSE updates[f]]
\* { ...DEALS[index], ...updates, updatedAt: new Date().toISOString() }
spread(deal, updates, now) ==
    [f \in DOMAIN deal \cup DOMAIN updates \cup {"updatedAt"} |->
        IF f = "updatedAt" THEN toISOString(now)
        ELSE IF f \in DOMAIN updates THEN updates[f] ELSE deal[f]]

\* addDeal (lines 354-357): the store after the call and the value returned
addDeal(store, deal) == [DEALS |-> Append(store, deal), result |-> deal]

\* updateDeal (lines 359-366): the store after the call and the value returned
updateDeal(store, id, updates, now) ==
    LET index == findIndex(store, id)
    IN  IF index # 0 - 1
        THEN LET updated == spread(store[index], updates, now)
             IN  [DEALS |-> [store EXCEPT ![index] = updated], result |-> updated]
        ELSE [DEALS |-> store, result |-> Null]

\* addActivityToDeal (lines 368-384): the stored deal itself gets the activity
\* and a fresh updatedAt (its activities are not among the fields kept here)
addActivityToDeal(store, dealId, activity, now) ==
    LET index == findIndex(store, dealId)
    IN  IF index # 0 - 1
        THEN LET updated == [store[index] EXCEPT !.updatedAt = toISOString(now)]
             IN  [DEALS |-> [store EXCEPT ![index] = updated], result |-> updated]
        ELSE [DEALS |-> store, result |-> Null]

\* getAccountDeals: DEALS.filter(d => d.accountId === accountId)
getAccountDeals(store, accountId) ==
    SelectSeq(store, LAMBDA d : d.accountId = accountId)

\* ------------------------------------------------------- strings of titles
\* a title is the sequence of its characters
toLowerCase(str) ==
    [i \in 1..Len(str) |->
        IF str[i] = "A" THEN "a" ELSE IF str[i] = "B" THEN "b" ELSE str[i]]
RECURSIVE trimStart(_)
trimStart(str) ==
    IF str # <<>> /\ Head(str) = " " THEN trimStart(Tail(str)) ELSE str
RECURSIVE trimEnd(_)
trimEnd(str) ==
    IF str # <<>> /\ str[Len(str)] = " "
    THEN trimEnd(SubSeq(str, 1, Len(str) - 1)) ELSE str
trim(str) == trimEnd(trimStart(str))

\* ------------------------------------------------------------ the forms
\* /^\d*$/.test(val) and Number(val) on the texts of the inputs
isDigits(val) == val \in {"", "50", "100", "101"}
Number(val) ==
    IF val = "50" THEN 50 ELSE IF val = "100" THEN 100 ELSE IF val = "101" THEN 101
    ELSE 0

\* the elements of the page's `deals` when a handler reads it: those of DEALS
\* while it is the array that getDeals() returned
pageDeals(ds, store, same) == IF same THEN store ELSE ds

\* deals.find(d => d.title.toLowerCase() === title?.trim().toLowerCase()
\*                 && d.id !== editingId)
duplicate(ds, title, editingId) ==
    \E i \in 1..Len(ds) :
        /\ toLowerCase(ds[i].title) = toLowerCase(trim(title))
        /\ ds[i].id # editingId

\* (variant: the probability is not validated)
newErrorsWithoutProbability(form, editing, isNew, ds) ==
    [title |-> IF trim(form.title) = <<>> THEN "Deal title is required"
               ELSE IF duplicate(ds, form.title, editing.id)
                    THEN "An opportunity with this name already exists"
               ELSE "",
     amount |-> IF form.amount < 0 THEN "Amount cannot be negative" ELSE "",
     probability |-> "",
     accountId |-> IF isNew /\ form.accountId = "" THEN "Account is required" ELSE ""]
\* Pipeline.handleSaveDeal, validation (lines 65-93): newErrors
newErrors(form, editing, isNew, ds) ==
    [title |-> IF trim(form.title) = <<>> THEN "Deal title is required"
               ELSE IF duplicate(ds, form.title, editing.id)
                    THEN "An opportunity with this name already exists"
               ELSE "",
     amount |-> IF form.amount < 0 THEN "Amount cannot be negative" ELSE "",
     probability |-> IF form.probability < 0 \/ form.probability > 100
                     THEN "Probability must be between 0 and 100" ELSE "",
     accountId |-> IF isNew /\ form.accountId = "" THEN "Account is required" ELSE ""]

\* Accounts.handleSaveNewDeal, validation (lines 74-92): errors; the
\* duplicate is looked for in getDeals()
newDealErrors(form, store) ==
    [title |-> IF trim(form.title) = <<>> THEN "Deal title is required"
               ELSE IF duplicate(store, form.title, UndefinedId)
                    THEN "An opportunity with this name already exists"
               ELSE "",
     amount |-> IF form.amount < 0 THEN "Amount cannot be negative" ELSE "",
     probability |-> "",
     accountId |-> ""]

hasError(errs) == errs # [title |-> "", amount |-> "", probability |-> "", accountId |-> ""]

\* the deal both forms hand to addDeal: id `deal-new-${Date.now()}`, the
\* title as typed, amount || 0, probability || 20
newDeal(form, accountId, now) ==
    [id |-> DealId("deal-new", now.t),
     accountId |-> accountId,
     title |-> form.title,
     amount |-> form.amount,
     probability |-> IF form.probability = 0 THEN 20 ELSE form.probability,
     updatedAt |-> toISOString(now)]

\* prev.map(d => d.id === id ? updated : d)
mapUpdated(prev, id, updated) ==
    [i \in 1..Len(prev) |-> IF prev[i].id = id THEN updated ELSE prev[i]]

\* ---------------------------------------------------------------- inputs
\* Stage of lib/mockData.ts, and the stage names of the earlier Stage type
\* that calculateForecast still tests for
Stage == {"LEAD", "UNCOMMITTED", "COMMITTED", "WON", "LOST"}
LegacyStage == {"DISCOVERY", "CLOSED_WON", "CLOSED_LOST"}
Confidence == {"HIGH", "MEDIUM", "LOW"}
\* the engine does not validate amounts: zero and negative ones are inputs too
Amounts == {0 - 50000, 0, 50000, 150000}
CloseDates == {Iso(2025, 3, 31, 0), Iso(2025, 4, 1, 0)}
NextStepDates == {Iso(2025, 3, 24, 0), Iso(2025, 4, 9, 0)}
LastActivityDates == {Iso(2025, 3, 3, 0)}
\* Dashboard: new Date(selectedMonth + "-01T12:00:00")
TargetIsos == {Iso(2025, 3, 1, 1), Iso(2025, 4, 1, 1), Iso(2026, 3, 1, 1)}
TargetDates == {parseISO(s) : s \in TargetIsos}
Clocks == {parseISO(Iso(2025, 3, 9, 0)), parseISO(Iso(2025, 3, 10, 0)),
           parseISO(Iso(2025, 3, 10, 1)), parseISO(Iso(2025, 3, 11, 0))}

Deal == [stage : Stage \cup LegacyStage,
         confidence : Confidence,
         amount : Amounts,
         closeDate : CloseDates,
         lastActivityDate : LastActivityDates,
         nextStep : {"Call"},
         nextStepDate : NextStepDates]

\* The collections of several deals are drawn from the deals whose next step
\* is on 2025-03-24, whose amount is positive and whose stage is CLOSED_WON,
\* DISCOVERY or COMMITTED: the forecast sums tell apart CLOSED_WON,
\* CLOSED_LOST (left out of every sum), DISCOVERY and any other stage.
CoreStage == {"COMMITTED", "DISCOVERY", "CLOSED_WON"}
CoreDeal == {d \in Deal : /\ d.stage \in CoreStage
                          /\ d.nextStepDate = Iso(2025, 3, 24, 0)
                          /\ d.amount > 0}
CoreTargetDates == {parseISO(Iso(2025, 3, 1, 1)), parseISO(Iso(2025, 4, 1, 1))}
CoreClocks == {parseISO(Iso(2025, 3, 9, 0)), parseISO(Iso(2025, 3, 10, 0)),
               parseISO(Iso(2025, 3, 11, 0))}

\* every single deal, as a collection of one
SingleDeals == {<<d>> : d \in Deal}

\* a deal closing on 2025-03-31 with the given stage, confidence and amount
MarchDeal(stage, confidence, amount) ==
    [stage |-> stage, confidence |-> confidence, amount |-> amount,
     closeDate |-> Iso(2025, 3, 31, 0), lastActivityDate |-> Iso(2025, 3, 3, 0),
     nextStep |-> "Call", nextStepDate |-> Iso(2025, 3, 24, 0)]

\* the five-deal scenario; the confidence of D1, D4 and D5 is left open
FiveDeals ==
    {<<MarchDeal("WON", c1, 50000),
       MarchDeal("COMMITTED", "HIGH", 100000),
       MarchDeal("COMMITTED", "MEDIUM", 40000),
       MarchDeal("UNCOMMITTED", c4, 30000),
       MarchDeal("LEAD", c5, 20000)>> : c1 \in Confidence, c4 \in Confidence,
                                        c5 \in Confidence}

\* four closed deals, three won and one lost, in either naming of the stages
FourClosed ==
    {<<MarchDeal(won, "HIGH", 50000), MarchDeal(won, "HIGH", 50000),
       MarchDeal(lost, "LOW", 50000), MarchDeal(won, "MEDIUM", 150000)>> :
         <<won, lost>> \in {<<"WON", "LOST">>, <<"CLOSED_WON", "CLOSED_LOST">>}}

Scenarios == FiveDeals \cup FourClosed

\* a complete deal with one of its fields left empty, as a collection of one
CompleteDeal == MarchDeal("COMMITTED", "HIGH", 50000)
IncompleteSingles ==
    {<<[CompleteDeal EXCEPT !.stage = ""]>>,
     <<[CompleteDeal EXCEPT !.confidence = ""]>>,
     <<[CompleteDeal EXCEPT !.nextStep = ""]>>,
     <<[CompleteDeal EXCEPT !.nextStepDate = EmptyString]>>,
     <<[CompleteDeal EXCEPT !.closeDate = EmptyString]>>,
     <<[CompleteDeal EXCEPT !.lastActivityDate = EmptyString]>>}

\* HistoricalRevenue rows; nothing keeps forecasted or actual away from zero
HistoricalRevenue == [month : {"2025-01"},
                      forecasted : {0, 90000, 110000},
                      actual : {0 - 100000, 0, 100000, 120000}]
\* two months of history: 90000 forecast for 100000, then 100000 for 120000
TwoMonths ==
    <<[month |-> "2025-01", forecasted |-> 90000, actual |-> 100000],
      [month |-> "2025-02", forecasted |-> 100000, actual |-> 120000]>>

\* the deals handed to the Dashboard's risk and staleness indicators: they
\* differ in amount and in the day of their last activity
RiskDeal ==
    {[CompleteDeal EXCEPT !.amount = a, !.lastActivityDate = l] :
        a \in Amounts, l \in {Iso(2025, 3, 2, 0), Iso(2025, 3, 3, 0)}}
\* the Dashboard passes metrics.pipelineValue; the function takes any number
TotalValues == {0 - 100000, 0, 100000, 240000, 500000, 1000000}

NoMetrics == [returned |-> FALSE]

\* the fields of a stored Deal that the forms and the store functions act on
\* (the other fields are copied along unchanged)
StoredDeal(id, title, amount, probability, updatedAt) ==
    [id |-> id, accountId |-> "acc-1", title |-> title, amount |-> amount,
     probability |-> probability, updatedAt |-> updatedAt]
SeedTime == Iso(2025, 3, 1, 0)
\* the store as the module creates it: a deal titled "b"; the store does not
\* validate, so a deal with a negative amount and a probability above 100
\* can be in it
SeedDeal == StoredDeal(DealId("deal", 1), <<"b">>, 100, 50, SeedTime)
UnvalidatedDeal == StoredDeal(DealId("deal", 2), <<"B", "b">>, 0 - 1, 150, SeedTime)
InitialStores == {<<SeedDeal>>, <<SeedDeal, UnvalidatedDeal>>}

\* arguments of direct calls of addDeal and updateDeal
AddDealInputs ==
    {StoredDeal(DealId("deal", n), title, 100, 50, SeedTime) :
        n \in 1..2, title \in {<<"a">>, <<"b">>}}
UpdateIds == {DealId("deal", 1), DealId("deal", 2), DealId("deal", 9)}
UpdateInputs ==
    {[title |-> <<"A">>],
     [id |-> DealId("deal", 2)],
     [title |-> <<"a">>, updatedAt |-> Iso(2025, 1, 1, 0)]}

\* arguments of addActivityToDeal, and what the activity form can hold
ActivityInputs == {[type |-> "CALL", notes |-> <<"x">>]}
ActivityForms ==
    {[type |-> "", notes |-> <<"x">>], [type |-> "CALL", notes |-> <<" ">>],
     [type |-> "CALL", notes |-> <<"x">>]}

\* what the user can type or pick in the forms
TitleInputs == {<<" ">>, <<"A">>, <<" ", "a">>}
AccountIds == {"acc-1"}

\* the text typed into the amount and probability inputs of the Pipeline form
AmountTexts == {"1x"}
ProbabilityTexts == {"101"}
\* the numbers the amount input of the Accounts form can hold
NewAmounts == {0 - 1}

\* {} as a Partial<Deal>: every property is undefined, which the forms read
\* through `|| 0`, `!x` and `x?.trim()`
EmptyObject ==
    [id |-> UndefinedId, accountId |-> "", title |-> <<>>, amount |-> 0,
     probability |-> 0, updatedAt |-> EmptyString]
NoErrors == [title |-> "", amount |-> "", probability |-> "", accountId |-> ""]

\* no dialog is open and no store function was called
FormsClosed ==
    /\ returned = Null
    /\ editingDeal = Null
    /\ isNewDeal = FALSE
    /\ editForm = EmptyObject
    /\ errors = NoErrors
    /\ selectedAccount = Null
    /\ isAddDealOpen = FALSE
    /\ newDealForm = EmptyObject
    /\ addDealErrors = NoErrors
    /\ priorityDeals = <<>>
    /\ selectedRisk = Null
    /\ selectedCoaching = Null

\* Dashboard: const deals = getDeals()
DashboardMounted ==
    /\ page = "dashboard"
    /\ DEALS = deals
    /\ sameArray = TRUE
    /\ FormsClosed

\* ------------------------------------------------------------ the machine
\* nothing has been computed yet
NotRendered ==
    /\ pc = "call"
    /\ metrics = NoMetrics
    /\ staleDeals = <<>>
    /\ concentrationRisk = FALSE

Init ==
    /\ NotRendered
    /\ totalValue = 0
    /\ history = <<>>
    /\ \/ /\ \E n \in 0..MaxDeals : deals \in [1..n -> CoreDeal]
          /\ targetDate \in CoreTargetDates
          /\ clock \in CoreClocks
       \/ /\ deals \in SingleDeals \cup Scenarios
          /\ targetDate \in TargetDates
          /\ clock \in Clocks
    /\ DashboardMounted

\* Dashboard: metrics = calculateForecast(deals, targetDate, history)
CalculateForecast ==
    /\ pc = "call"
    /\ metrics' = calculateForecast(deals, targetDate, history, clock)
    /\ pc' = "done"
    /\ UNCHANGED <<deals, history, targetDate, clock, totalValue, staleDeals,
                   concentrationRisk>>
    /\ UNCHANGED pageVars

Next == CalculateForecast

Spec == Init /\ [][Next]_vars

\* the engine called with a history: every single deal and scenario with no
\* history or two months of it, and every short history with few deals
InitHealth ==
    /\ NotRendered
    /\ totalValue = 0
    /\ \/ /\ deals \in SingleDeals \cup IncompleteSingles \cup Scenarios \cup {<<>>}
          /\ history \in {<<>>, TwoMonths}
          /\ targetDate \in TargetDates
          /\ clock \in Clocks
       \/ /\ deals \in FourClosed \cup {<<>>}
          /\ \E n \in 0..MaxHistory : history \in [1..n -> HistoricalRevenue]
          /\ targetDate = parseISO(Iso(2025, 3, 1, 1))
          /\ clock = parseISO(Iso(2025, 3, 10, 0))
    /\ DashboardMounted

SpecHealth == InitHealth /\ [][Next]_vars

\* the three exported functions called one after the other, in the order of
\* the Dashboard's render: the forecast, the stale deals, the concentration risk
InitDashboard ==
    /\ NotRendered
    /\ history \in {<<>>, TwoMonths}
    /\ targetDate = parseISO(Iso(2025, 3, 1, 1))
    /\ totalValue \in TotalValues
    /\ clock \in Clocks
    /\ \/ /\ \E n \in 0..MaxRiskDeals : deals \in [1..n -> RiskDeal]
          /\ history = <<>>
       \/ deals \in IncompleteSingles \cup Scenarios
    /\ DashboardMounted

\* Dashboard: staleDeals = deals.filter(isDealStale)
FilterStale ==
    /\ pc = "done"
    /\ staleDeals' = SelectSeq(deals, LAMBDA d : isDealStale(d, clock))
    /\ pc' = "stale"
    /\ UNCHANGED <<deals, history, targetDate, clock, metrics, totalValue,
                   concentrationRisk>>
    /\ UNCHANGED pageVars

\* a call concentrationRisk = getConcentrationRisk(deals, totalValue), with
\* any number as totalValue (the Dashboard passes metrics.pipelineValue)
GetConcentrationRisk ==
    /\ pc = "stale"
    /\ concentrationRisk' = getConcentrationRisk(deals, totalValue)
    /\ deals' = dealsAfterGetConcentrationRisk(deals)
    /\ pc' = "risk"
    /\ UNCHANGED <<history, targetDate, clock, metrics, totalValue, staleDeals>>
    /\ UNCHANGED pageVars

NextDashboard == CalculateForecast \/ FilterStale \/ GetConcentrationRisk

SpecDashboard == InitDashboard /\ [][NextDashboard]_vars

\* ---------------------------------------------------- the store, called
\* what every specification of the store and the pages leaves alone
engineVars == <<history, targetDate, pc, metrics, totalValue, staleDeals,
                concentrationRisk>>
EngineIdle ==
    /\ NotRendered
    /\ history = <<>>
    /\ targetDate = parseISO(Iso(2025, 3, 1, 1))
    /\ totalValue = 0

FirstClock == parseISO(Iso(2025, 3, 10, 0))

InitStore ==
    /\ EngineIdle
    /\ clock = FirstClock
    /\ DEALS \in InitialStores
    /\ deals = <<>>
    /\ page = "none"
    /\ sameArray = FALSE
    /\ FormsClosed

\* a call addDeal(deal)
AddDeal(deal) ==
    /\ Len(DEALS) < MaxStore
    /\ DEALS' = addDeal(DEALS, deal).DEALS
    /\ returned' = addDeal(DEALS, deal).result
    /\ UNCHANGED <<deals, clock, page, sameArray, editingDeal, isNewDeal, editForm,
                   errors, selectedAccount, isAddDealOpen, newDealForm,
                   addDealErrors, priorityDeals, selectedRisk,
      selectedCoaching>>
    /\ UNCHANGED engineVars

\* a call updateDeal(id, updates)
UpdateDeal(id, updates) ==
    /\ DEALS' = updateDeal(DEALS, id, updates, clock).DEALS
    /\ returned' = updateDeal(DEALS, id, updates, clock).result
    /\ UNCHANGED <<deals, clock, page, sameArray, editingDeal, isNewDeal, editForm,
                   errors, selectedAccount, isAddDealOpen, newDealForm,
                   addDealErrors, priorityDeals, selectedRisk,
      selectedCoaching>>
    /\ UNCHANGED engineVars

\* a call addActivityToDeal(dealId, activity)
AddActivityToDeal(dealId, activity) ==
    /\ DEALS' = addActivityToDeal(DEALS, dealId, activity, clock).DEALS
    /\ returned' = addActivityToDeal(DEALS, dealId, activity, clock).result
    /\ UNCHANGED <<deals, clock, page, sameArray, editingDeal, isNewDeal, editForm,
                   errors, selectedAccount, isAddDealOpen, newDealForm,
                   addDealErrors, priorityDeals, selectedRisk, selectedCoaching>>
    /\ UNCHANGED engineVars

AddDealCall == \E deal \in AddDealInputs : AddDeal(deal)
UpdateDealCall == \E id \in UpdateIds : \E updates \in UpdateInputs : UpdateDeal(id, updates)

AddActivityToDealCall ==
    \E dealId \in UpdateIds : \E activity \in ActivityInputs :
        AddActivityToDeal(dealId, activity)

NextStore == AddDealCall \/ UpdateDealCall \/ AddActivityToDealCall

SpecStore == InitStore /\ [][NextStore]_vars

\* ------------------------------------------------------------- the pages
\* Pipeline: const [deals, setDeals] = useState(getDeals())
PipelineMounted ==
    /\ page = "pipeline"
    /\ deals = DEALS
    /\ sameArray = TRUE

InitPages ==
    /\ EngineIdle
    /\ clock = FirstClock
    /\ DEALS \in {<<SeedDeal>>, <<UnvalidatedDeal>>}
    /\ PipelineMounted
    /\ FormsClosed

\* the route changes: the page is unmounted and the other one mounted
OpenPipeline ==
    /\ page = "accounts"
    /\ page' = "pipeline"
    /\ deals' = DEALS
    /\ sameArray' = TRUE
    /\ editingDeal' = Null
    /\ isNewDeal' = FALSE
    /\ editForm' = EmptyObject
    /\ errors' = NoErrors
    /\ selectedAccount' = Null
    /\ isAddDealOpen' = FALSE
    /\ newDealForm' = EmptyObject
    /\ addDealErrors' = NoErrors
    /\ UNCHANGED <<DEALS, returned, clock, priorityDeals, selectedRisk,
      selectedCoaching>>
    /\ UNCHANGED engineVars

OpenAccounts ==
    /\ page = "pipeline"
    /\ page' = "accounts"
    /\ deals' = <<>>
    /\ sameArray' = FALSE
    /\ editingDeal' = Null
    /\ isNewDeal' = FALSE
    /\ editForm' = EmptyObject
    /\ errors' = NoErrors
    /\ selectedAccount' = Null
    /\ isAddDealOpen' = FALSE
    /\ newDealForm' = EmptyObject
    /\ addDealErrors' = NoErrors
    /\ UNCHANGED <<DEALS, returned, clock, priorityDeals, selectedRisk,
      selectedCoaching>>
    /\ UNCHANGED engineVars

\* the system clock advances
Tick ==
    /\ clock.t < FirstClock.t + MaxTicks
    /\ clock' = [clock EXCEPT !.t = clock.t + 1]
    /\ UNCHANGED <<deals, DEALS, returned, page, sameArray, editingDeal, isNewDeal,
                   editForm, errors, selectedAccount, isAddDealOpen, newDealForm,
                   addDealErrors, priorityDeals, selectedRisk,
      selectedCoaching>>
    /\ UNCHANGED engineVars

\* what the handlers of the Pipeline dialog leave alone
pipelineFrame ==
    <<deals, DEALS, returned, clock, page, sameArray, selectedAccount,
      isAddDealOpen, newDealForm, addDealErrors, priorityDeals, selectedRisk,
      selectedCoaching>>

\* Pipeline.handleEditClick (lines 39-46)
HandleEditClick ==
    /\ page = "pipeline"
    /\ editingDeal = Null
    /\ \E i \in 1..Len(pageDeals(deals, DEALS, sameArray)) :
           LET deal == pageDeals(deals, DEALS, sameArray)[i]
           IN  /\ isNewDeal' = FALSE
               /\ editingDeal' = deal
               /\ errors' = NoErrors
               /\ editForm' = deal
    /\ UNCHANGED pipelineFrame
    /\ UNCHANGED engineVars

\* Pipeline.handleAddClick (lines 48-60)
HandleAddClick ==
    /\ page = "pipeline"
    /\ editingDeal = Null
    /\ Len(DEALS) < MaxStore
    /\ isNewDeal' = TRUE
    /\ editingDeal' = [id |-> UndefinedId]
    /\ errors' = NoErrors
    /\ editForm' = [EmptyObject EXCEPT !.probability = 20]
    /\ UNCHANGED pipelineFrame
    /\ UNCHANGED engineVars

\* Pipeline: the account select (lines 280-287)
ChangeAccount ==
    /\ page = "pipeline"
    /\ editingDeal # Null
    /\ isNewDeal
    /\ \E val \in AccountIds : editForm' = [editForm EXCEPT !.accountId = val]
    /\ errors' = [errors EXCEPT !.accountId = ""]
    /\ UNCHANGED <<editingDeal, isNewDeal>>
    /\ UNCHANGED pipelineFrame
    /\ UNCHANGED engineVars

\* Pipeline: the title input (lines 307-310)
ChangeTitle ==
    /\ page = "pipeline"
    /\ editingDeal # Null
    /\ \E val \in TitleInputs : editForm' = [editForm EXCEPT !.title = val]
    /\ errors' = [errors EXCEPT !.title = ""]
    /\ UNCHANGED <<editingDeal, isNewDeal>>
    /\ UNCHANGED pipelineFrame
    /\ UNCHANGED engineVars

\* Pipeline: the amount input (lines 322-334)
ChangeAmount ==
    /\ page = "pipeline"
    /\ editingDeal # Null
    /\ \E val \in AmountTexts :
           IF val # "" /\ ~isDigits(val)
           THEN /\ errors' = [errors EXCEPT !.amount = "Amount must be a number"]
                /\ UNCHANGED editForm
           ELSE /\ editForm' = [editForm EXCEPT !.amount = Number(val)]
                /\ errors' = [errors EXCEPT !.amount = ""]
    /\ UNCHANGED <<editingDeal, isNewDeal>>
    /\ UNCHANGED pipelineFrame
    /\ UNCHANGED engineVars

\* Pipeline: the probability input (lines 396-412)
ChangeProbability ==
    /\ page = "pipeline"
    /\ editingDeal # Null
    /\ \E val \in ProbabilityTexts :
           IF val # "" /\ ~isDigits(val)
           THEN /\ errors' = [errors EXCEPT
                                 !.probability = "Probability must be a number"]
                /\ UNCHANGED editForm
           ELSE /\ editForm' = [editForm EXCEPT !.probability = Number(val)]
                /\ errors' = [errors EXCEPT !.probability =
                                 IF Number(val) < 0 \/ Number(val) > 100
                                 THEN "Probability must be between 0 and 100"
                                 ELSE ""]
    /\ UNCHANGED <<editingDeal, isNewDeal>>
    /\ UNCHANGED pipelineFrame
    /\ UNCHANGED engineVars

\* Pipeline: Cancel, or the dialog closes (lines 266, 421)
CancelEdit ==
    /\ page = "pipeline"
    /\ editingDeal # Null
    /\ editingDeal' = Null
    /\ UNCHANGED <<isNewDeal, editForm, errors>>
    /\ UNCHANGED pipelineFrame
    /\ UNCHANGED engineVars

\* Pipeline.handleSaveDeal (lines 62-132)
HandleSaveDeal ==
    /\ page = "pipeline"
    /\ editingDeal # Null
    /\ LET read == pageDeals(deals, DEALS, sameArray)
           errs == newErrors(editForm, editingDeal, isNewDeal, read)
       IN  IF hasError(errs)
           THEN /\ errors' = errs
                /\ UNCHANGED <<deals, DEALS, sameArray, editingDeal>>
           ELSE IF isNewDeal
           THEN LET added == addDeal(DEALS, newDeal(editForm, editForm.accountId, clock))
                IN  /\ DEALS' = added.DEALS
                    /\ deals' = Append(pageDeals(deals, added.DEALS, sameArray),
                                       added.result)
                    /\ sameArray' = FALSE
                    /\ editingDeal' = Null
                    /\ UNCHANGED errors
           ELSE LET updated == updateDeal(DEALS, editingDeal.id, editForm, clock)
                IN  /\ DEALS' = updated.DEALS
                    /\ IF updated.result # Null
                       THEN /\ deals' = mapUpdated(
                                   pageDeals(deals, updated.DEALS, sameArray),
                                   editingDeal.id, updated.result)
                            /\ sameArray' = FALSE
                       ELSE UNCHANGED <<deals, sameArray>>
                    /\ editingDeal' = Null
                    /\ UNCHANGED errors
    /\ UNCHANGED <<returned, isNewDeal, editForm, clock, page, selectedAccount,
                   isAddDealOpen, newDealForm, addDealErrors, priorityDeals,
                   selectedRisk,
      selectedCoaching>>
    /\ UNCHANGED engineVars

\* what the handlers of the Accounts dialog leave alone
accountsFrame ==
    <<returned, clock, page, editingDeal, isNewDeal, editForm, errors,
      priorityDeals, selectedRisk,
      selectedCoaching>>

\* Accounts.handleAccountClick (lines 51-54)
HandleAccountClick ==
    /\ page = "accounts"
    /\ ~isAddDealOpen
    /\ \E id \in AccountIds :
           /\ selectedAccount' = [id |-> id]
           /\ deals' = getAccountDeals(DEALS, id)
    /\ sameArray' = FALSE
    /\ UNCHANGED <<DEALS, isAddDealOpen, newDealForm, addDealErrors>>
    /\ UNCHANGED accountsFrame
    /\ UNCHANGED engineVars

\* Accounts.handleAddDealClick (lines 57-69)
HandleAddDealClick ==
    /\ page = "accounts"
    /\ selectedAccount # Null
    /\ ~isAddDealOpen
    /\ Len(DEALS) < MaxStore
    /\ newDealForm' = [EmptyObject EXCEPT !.probability = 20]
    /\ addDealErrors' = NoErrors
    /\ isAddDealOpen' = TRUE
    /\ UNCHANGED <<deals, DEALS, sameArray, selectedAccount>>
    /\ UNCHANGED accountsFrame
    /\ UNCHANGED engineVars

\* Accounts: the title input (lines 432-435)
ChangeNewTitle ==
    /\ page = "accounts"
    /\ isAddDealOpen
    /\ \E val \in TitleInputs : newDealForm' = [newDealForm EXCEPT !.title = val]
    /\ addDealErrors' = [addDealErrors EXCEPT !.title = ""]
    /\ UNCHANGED <<deals, DEALS, sameArray, selectedAccount, isAddDealOpen>>
    /\ UNCHANGED accountsFrame
    /\ UNCHANGED engineVars

\* Accounts: the amount input (line 449)
ChangeNewAmount ==
    /\ page = "accounts"
    /\ isAddDealOpen
    /\ \E val \in NewAmounts : newDealForm' = [newDealForm EXCEPT !.amount = val]
    /\ UNCHANGED <<deals, DEALS, sameArray, selectedAccount, isAddDealOpen,
                   addDealErrors>>
    /\ UNCHANGED accountsFrame
    /\ UNCHANGED engineVars

\* Accounts: Cancel, or the dialog closes (lines 420, 481)
CancelAddDeal ==
    /\ page = "accounts"
    /\ isAddDealOpen
    /\ isAddDealOpen' = FALSE
    /\ UNCHANGED <<deals, DEALS, sameArray, selectedAccount, newDealForm,
                   addDealErrors>>
    /\ UNCHANGED accountsFrame
    /\ UNCHANGED engineVars

\* Accounts.handleSaveNewDeal (lines 71-124)
HandleSaveNewDeal ==
    /\ page = "accounts"
    /\ isAddDealOpen
    /\ selectedAccount # Null
    /\ LET errs == newDealErrors(newDealForm, DEALS)
       IN  IF hasError(errs)
           THEN /\ addDealErrors' = errs
                /\ UNCHANGED <<deals, DEALS, isAddDealOpen>>
           ELSE LET added == addDeal(DEALS, newDeal(newDealForm, selectedAccount.id, clock))
                IN  /\ DEALS' = added.DEALS
                    /\ deals' = Append(deals, added.result)
                    /\ isAddDealOpen' = FALSE
                    /\ UNCHANGED addDealErrors
    /\ UNCHANGED <<returned, clock, page, sameArray, selectedAccount, newDealForm,
                   editingDeal, isNewDeal, editForm, errors, priorityDeals,
                   selectedRisk,
      selectedCoaching>>
    /\ UNCHANGED engineVars

\* Accounts: the account dialog closes (line 223)
CloseAccount ==
    /\ page = "accounts"
    /\ selectedAccount # Null
    /\ ~isAddDealOpen
    /\ selectedAccount' = Null
    /\ UNCHANGED <<deals, DEALS, sameArray, isAddDealOpen, newDealForm,
                   addDealErrors>>
    /\ UNCHANGED accountsFrame
    /\ UNCHANGED engineVars

\* Accounts.handleLogActivity (lines 126-171) on what the activity form
\* holds; the related opportunity is picked among the page's deals
HandleLogActivity ==
    /\ page = "accounts"
    /\ selectedAccount # Null
    /\ ~isAddDealOpen
    /\ \E form \in ActivityForms :
       \E dealId \in {deals[i].id : i \in 1..Len(deals)} \cup {UndefinedId} :
           IF form.type = "" \/ trim(form.notes) = <<>> \/ dealId = UndefinedId
           THEN UNCHANGED <<deals, DEALS>>
           ELSE LET logged == addActivityToDeal(DEALS, dealId,
                                  [type |-> form.type, notes |-> form.notes], clock)
                IN  /\ DEALS' = logged.DEALS
                    /\ deals' = IF logged.result # Null
                                THEN mapUpdated(deals, logged.result.id, logged.result)
                                ELSE deals
    /\ UNCHANGED <<sameArray, selectedAccount, isAddDealOpen, newDealForm,
                   addDealErrors>>
    /\ UNCHANGED accountsFrame
    /\ UNCHANGED engineVars

NextPages ==
    \/ OpenPipeline \/ OpenAccounts \/ Tick
    \/ HandleEditClick \/ HandleAddClick \/ ChangeAccount \/ ChangeTitle
    \/ ChangeAmount \/ ChangeProbability \/ CancelEdit \/ HandleSaveDeal
    \/ HandleAccountClick \/ HandleAddDealClick \/ ChangeNewTitle
    \/ ChangeNewAmount \/ CancelAddDeal \/ HandleSaveNewDeal
    \/ CloseAccount \/ HandleLogActivity

SpecPages == InitPages /\ [][NextPages]_vars

\* ------------------------------------------------------- the My Week page
\* (variant: the comparator without the staleness tests)
priorityCompareByAmount(a, b, now) == b.amount - a.amount
\* RepMyWeek: the comparator of priorityDeals (lines 25-32)
priorityCompare(a, b, now) ==
    LET aStale == Gt(differenceInDays(now, parseISO(a.lastActivityDate)), 7)
        bStale == Gt(differenceInDays(now, parseISO(b.lastActivityDate)), 7)
    IN  IF aStale /\ ~bStale THEN 0 - 1
        ELSE IF ~aStale /\ bStale THEN 1
        ELSE b.amount - a.amount

\* Array.prototype.sort is stable: a deal stays behind the deals before it
\* that the comparator does not put after it
RECURSIVE insertByPriority(_, _, _)
insertByPriority(sorted, deal, now) ==
    IF sorted = <<>> THEN <<deal>>
    ELSE IF priorityCompare(Head(sorted), deal, now) <= 0
         THEN <<Head(sorted)>> \o insertByPriority(Tail(sorted), deal, now)
         ELSE <<deal>> \o sorted
\* [...deals].sort(comparator)
RECURSIVE sortByPriority(_, _)
sortByPriority(ds, now) ==
    IF ds = <<>> THEN <<>>
    ELSE insertByPriority(sortByPriority(SubSeq(ds, 1, Len(ds) - 1), now),
                          ds[Len(ds)], now)

\* RepMyWeek mounted: deals = useState(getDeals()), the store's own array
InitMyWeek ==
    /\ EngineIdle
    /\ clock \in Clocks
    /\ \E n \in 0..MaxRiskDeals : DEALS \in [1..n -> RiskDeal]
    /\ deals = DEALS
    /\ page = "myweek"
    /\ sameArray = TRUE
    /\ FormsClosed

\* a render of RepMyWeek: priorityDeals is computed from a copy of deals
RenderMyWeek ==
    /\ page = "myweek"
    /\ pc = "call"
    /\ priorityDeals' = sortByPriority(pageDeals(deals, DEALS, sameArray), clock)
    /\ pc' = "myweek"
    /\ UNCHANGED <<deals, DEALS, sameArray, page, clock, returned, editingDeal,
                   isNewDeal, editForm, errors, selectedAccount, isAddDealOpen,
                   newDealForm, addDealErrors, selectedRisk,
      selectedCoaching>>
    /\ UNCHANGED <<history, targetDate, metrics, totalValue, staleDeals,
                   concentrationRisk>>

NextMyWeek == RenderMyWeek

SpecMyWeek == InitMyWeek /\ [][NextMyWeek]_vars

\* ------------------------------------------- the Dashboard's drill-downs
\* x < k on a score
FLtInt(x, k) == FGt(FromInt(k), x)

\* deals.slice(0, 2)
slice2(ds) == SubSeq(ds, 1, IF Len(ds) < 2 THEN Len(ds) ELSE 2)

\* the titles of the coaching cards
CoachingTitles == {"Win Rate Optimization", "Alex Sales - Negotiation Stagnation",
                   "Jordan Closer - Hygiene Excellence"}

\* the Dashboard mounted on the store: deals = getDeals() is the store's array
InitDrillDown ==
    /\ NotRendered
    /\ history = <<>>
    /\ targetDate = parseISO(Iso(2025, 3, 1, 1))
    /\ totalValue = 0
    /\ clock \in Clocks
    /\ \E n \in 0..MaxRiskDeals : deals \in [1..n -> RiskDeal]
    /\ DashboardMounted

\* the first render of Dashboard (lines 42-65): metrics, staleDeals and
\* concentrationRisk, the latter from metrics.pipelineValue
RenderDashboard ==
    /\ page = "dashboard"
    /\ pc = "call"
    /\ metrics' = calculateForecast(DEALS, targetDate, history, clock)
    /\ totalValue' = metrics'.pipelineValue
    /\ staleDeals' = SelectSeq(DEALS, LAMBDA d : isDealStale(d, clock))
    /\ concentrationRisk' = getConcentrationRisk(DEALS, metrics'.pipelineValue)
    /\ deals' = dealsAfterGetConcentrationRisk(deals)
    /\ DEALS' = dealsAfterGetConcentrationRisk(DEALS)
    /\ pc' = "risk"
    /\ UNCHANGED <<history, targetDate, clock>>
    /\ UNCHANGED <<returned, page, sameArray, editingDeal, isNewDeal, editForm,
                   errors, selectedAccount, isAddDealOpen, newDealForm,
                   addDealErrors, priorityDeals, selectedRisk, selectedCoaching>>

\* the months of the dropdown that are tried
SelectedMonths == {3, 4}

\* the month dropdown (line 96): setSelectedMonth; the render that follows
\* computes metrics for new Date(selectedMonth + "-01T12:00:00") and, from
\* them, concentrationRisk
SetSelectedMonth ==
    /\ page = "dashboard"
    /\ pc = "risk"
    /\ \E month \in SelectedMonths :
           targetDate' = parseISO(Iso(2025, month, 1, 1))
    /\ metrics' = calculateForecast(DEALS, targetDate', history, clock)
    /\ totalValue' = metrics'.pipelineValue
    /\ staleDeals' = SelectSeq(DEALS, LAMBDA d : isDealStale(d, clock))
    /\ concentrationRisk' = getConcentrationRisk(DEALS, metrics'.pipelineValue)
    /\ deals' = dealsAfterGetConcentrationRisk(deals)
    /\ DEALS' = dealsAfterGetConcentrationRisk(DEALS)
    /\ UNCHANGED <<history, clock, pc>>
    /\ UNCHANGED <<returned, page, sameArray, editingDeal, isNewDeal, editForm,
                   errors, selectedAccount, isAddDealOpen, newDealForm,
                   addDealErrors, priorityDeals, selectedRisk, selectedCoaching>>

\* what the drill-down handlers leave alone
drillDownFrame ==
    UNCHANGED <<history, targetDate, clock, pc, metrics, totalValue,
                concentrationRisk, returned, page, sameArray, editingDeal,
                isNewDeal, editForm, errors, selectedAccount, isAddDealOpen,
                newDealForm, addDealErrors, priorityDeals>>

\* click on the concentration card (lines 310-319): deals.sort(...) sorts the
\* store's array itself; the render that follows filters staleDeals from it
OpenConcentrationRisk ==
    /\ page = "dashboard"
    /\ pc = "risk"
    /\ concentrationRisk
    /\ DEALS' = sortedDeals(DEALS)
    /\ deals' = DEALS'
    /\ selectedRisk' = [type |-> "Concentration", details |-> slice2(DEALS')]
    /\ staleDeals' = SelectSeq(DEALS', LAMBDA d : isDealStale(d, clock))
    /\ UNCHANGED selectedCoaching
    /\ drillDownFrame

\* click on the stale-deals card (lines 327-336)
OpenStaleDeals ==
    /\ page = "dashboard"
    /\ pc = "risk"
    /\ Len(staleDeals) > 0
    /\ selectedRisk' = [type |-> "Stale", details |-> staleDeals]
    /\ UNCHANGED <<deals, DEALS, staleDeals, selectedCoaching>>
    /\ drillDownFrame

\* click on the low-freshness card (lines 344-353)
OpenLowFreshness ==
    /\ page = "dashboard"
    /\ pc = "risk"
    /\ FLtInt(metrics.freshnessScore, 80)
    /\ selectedRisk' =
           [type |-> "Freshness",
            details |-> SelectSeq(DEALS, LAMBDA d :
                Gt(differenceInDays(clock, parseISO(d.lastActivityDate)), 7))]
    /\ UNCHANGED <<deals, DEALS, staleDeals, selectedCoaching>>
    /\ drillDownFrame

\* click on a coaching card (lines 374-413); the win-rate card is shown when
\* metrics.winRate < 40
OpenCoaching ==
    /\ page = "dashboard"
    /\ pc = "risk"
    /\ \E title \in CoachingTitles :
           /\ title = "Win Rate Optimization" => FLtInt(metrics.winRate, 40)
           /\ selectedCoaching' = [title |-> title]
    /\ UNCHANGED <<deals, DEALS, staleDeals, selectedRisk>>
    /\ drillDownFrame

\* the dialogs' onOpenChange (lines 424, 457)
CloseRisk ==
    /\ page = "dashboard"
    /\ selectedRisk # Null
    /\ selectedRisk' = Null
    /\ UNCHANGED <<deals, DEALS, staleDeals, selectedCoaching>>
    /\ drillDownFrame
CloseCoaching ==
    /\ page = "dashboard"
    /\ selectedCoaching # Null
    /\ selectedCoaching' = Null
    /\ UNCHANGED <<deals, DEALS, staleDeals, selectedRisk>>
    /\ drillDownFrame

NextDrillDown ==
    \/ RenderDashboard
    \/ SetSelectedMonth
    \/ OpenConcentrationRisk
    \/ OpenStaleDeals
    \/ OpenLowFreshness
    \/ OpenCoaching
    \/ CloseRisk
    \/ CloseCoaching

SpecDrillDown == InitDrillDown /\ [][NextDrillDown]_vars

\* ------------------------------------------------- vocabulary of the claims
Returned == pc = "done"
NonNegativeAmounts == \A i \in 1..Len(deals) : deals[i].amount >= 0

\* the calendar month of the target date, read off its ISO form
TargetIso == CHOOSE s \in TargetIsos : parseISO(s) = targetDate
ClosesInTargetMonth(d) ==
    d.closeDate.y = TargetIso.y /\ d.closeDate.m = TargetIso.m

Remove(ds, i) == SubSeq(ds, 1, i - 1) \o SubSeq(ds, i + 1, Len(ds))
Without(i) == calculateForecast(Remove(deals, i), targetDate, history, clock)
SumWhere(ds, Test(_)) == SumAmount(SelectSeq(ds, Test))
CountWhere(ds, Test(_)) == Len(SelectSeq(ds, Test))

\* the deals the specification calls active, and those it calls won
IsActive(d) == d.stage \notin {"WON", "LOST"}
ActiveInTargetMonth(d) == IsActive(d) /\ ClosesInTargetMonth(d)
WonInTargetMonth(d) == d.stage = "WON" /\ ClosesInTargetMonth(d)
RealizedRevenue == SumWhere(deals, WonInTargetMonth)
\* deals[i] is an active deal of the given stage closing in the target month
InMonthWithStage(i, stage) ==
    /\ i \in 1..Len(deals)
    /\ deals[i].stage = stage
    /\ ClosesInTargetMonth(deals[i])

AllCanonical == \A i \in 1..Len(deals) : deals[i].stage \in Stage
InTargetMonthOnly == SelectSeq(deals, ClosesInTargetMonth)
ForecastFields(m) ==
    <<m.conservative, m.base, m.optimistic, m.pipelineValue, m.committedValue,
      m.uncommittedValue, m.closedWon>>

\* ------------------------------------------------------------------ claims

\* C1: for every deal collection with non-negative amounts, every target
\* month and every history, the returned metrics satisfy conservative <= base.
C1_ConservativeLeqBase ==
    (Returned /\ NonNegativeAmounts) => metrics.conservative <= metrics.base

\* a call that counted a deal in conservative and a further deal in base only
C1_Witness ==
    /\ Returned
    /\ NonNegativeAmounts
    /\ 0 < metrics.conservative
    /\ metrics.conservative < metrics.base

\* C2: with non-negative amounts optimistic >= base, because optimistic is
\* base plus optimisticDelta, and optimisticDelta sums amounts of deals that
\* are not counted in base.
C2_OptimisticGeqBase ==
    (Returned /\ NonNegativeAmounts) =>
        /\ metrics.optimistic >= metrics.base
        /\ metrics.optimistic
             = metrics.base + optimisticDelta(deals, targetDate, clock)
        /\ \A i \in 1..Len(deals) :
               inOptimisticDelta(deals[i], clock) => ~countedInBase(deals[i], clock)

\* a call where base counted a deal and optimisticDelta another one
C2_Witness ==
    /\ Returned
    /\ NonNegativeAmounts
    /\ 0 < metrics.base
    /\ metrics.base < metrics.optimistic

\* C3: the five-deal scenario, all closing in the target month, returns
\* closedWon 50000, committedValue 190000, uncommittedValue 30000, leadsValue
\* 20000, conservative 150000, base 190000, optimistic 220000 and
\* pipelineValue 240000.
C3_FiveDealScenario ==
    (Returned /\ deals \in FiveDeals /\ ClosesInTargetMonth(deals[1])) =>
        /\ metrics.closedWon = 50000
        /\ metrics.committedValue = 190000
        /\ metrics.uncommittedValue = 30000
        /\ "leadsValue" \in DOMAIN metrics /\ metrics.leadsValue = 20000
        /\ metrics.conservative = 150000
        /\ metrics.base = 190000
        /\ metrics.optimistic = 220000
        /\ metrics.pipelineValue = 240000

\* C4: every active COMMITTED deal closing in the target month adds its amount
\* to committedValue and to base whatever its confidence and dates, and to
\* conservative if and only if its confidence is HIGH.
C4_CommittedBuckets ==
    (Returned /\ AllCanonical) =>
        \A i \in 1..Len(deals) :
            InMonthWithStage(i, "COMMITTED") =>
                /\ metrics.committedValue = Without(i).committedValue + deals[i].amount
                /\ metrics.base = Without(i).base + deals[i].amount
                /\ metrics.conservative
                     = Without(i).conservative
                         + (IF deals[i].confidence = "HIGH" THEN deals[i].amount ELSE 0)

\* C5: every active UNCOMMITTED deal closing in the target month adds its
\* amount to uncommittedValue and to optimisticDelta (hence to optimistic) and
\* to neither base nor conservative, whatever its confidence.
C5_UncommittedBuckets ==
    (Returned /\ AllCanonical) =>
        \A i \in 1..Len(deals) :
            InMonthWithStage(i, "UNCOMMITTED") =>
                /\ metrics.uncommittedValue = Without(i).uncommittedValue + deals[i].amount
                /\ metrics.optimistic = Without(i).optimistic + deals[i].amount
                /\ metrics.base = Without(i).base
                /\ metrics.conservative = Without(i).conservative

\* C6: a LEAD deal closing in the target month adds its amount to leadsValue
\* and to pipelineValue only: conservative, base, optimistic, committedValue
\* and uncommittedValue are the same with the deal as without it.
C6_LeadOnlyInLeadsValue ==
    (Returned /\ AllCanonical) =>
        \A i \in 1..Len(deals) :
            InMonthWithStage(i, "LEAD") =>
                /\ metrics.conservative = Without(i).conservative
                /\ metrics.base = Without(i).base
                /\ metrics.optimistic = Without(i).optimistic
                /\ metrics.committedValue = Without(i).committedValue
                /\ metrics.uncommittedValue = Without(i).uncommittedValue
                /\ metrics.pipelineValue = Without(i).pipelineValue + deals[i].amount
                /\ "leadsValue" \in DOMAIN metrics
                /\ metrics.leadsValue = Without(i).leadsValue + deals[i].amount

\* C7: closedWon is realizedRevenue, the sum of the amounts of the WON deals
\* closing in the target month; conservative and base each include it exactly
\* once, and optimistic is the returned base plus optimisticDelta.
C7_ClosedWonIsRealizedRevenue ==
    (Returned /\ AllCanonical) =>
        LET open == calculateForecast(SelectSeq(deals, IsActive), targetDate,
                                      history, clock)
        IN  /\ metrics.closedWon = RealizedRevenue
            /\ metrics.conservative = open.conservative + RealizedRevenue
            /\ metrics.base = open.base + RealizedRevenue
            /\ metrics.optimistic
                 = metrics.base + optimisticDelta(deals, targetDate, clock)

\* C8: the returned pipelineValue is the sum of the amounts of all active
\* deals (stage neither WON nor LOST) closing in the target month plus
\* realizedRevenue, committedValue is the raw committed sum plus
\* realizedRevenue, and uncommittedValue and leadsValue are returned without
\* realizedRevenue.
C8_ReturnedPipelineValues ==
    (Returned /\ AllCanonical) =>
        /\ metrics.pipelineValue
             = SumWhere(deals, ActiveInTargetMonth) + RealizedRevenue
        /\ metrics.committedValue
             = SumWhere(deals, LAMBDA d : d.stage = "COMMITTED" /\ ClosesInTargetMonth(d))
                 + RealizedRevenue
        /\ metrics.uncommittedValue
             = SumWhere(deals, LAMBDA d : d.stage = "UNCOMMITTED" /\ ClosesInTargetMonth(d))
        /\ "leadsValue" \in DOMAIN metrics
        /\ metrics.leadsValue
             = SumWhere(deals, LAMBDA d : d.stage = "LEAD" /\ ClosesInTargetMonth(d))

\* C9: only deals whose closeDate falls in the calendar month of the target
\* date influence the forecast fields: the collection and the collection
\* without its deals closing outside that month yield the same conservative,
\* base, optimistic, pipelineValue, committedValue, uncommittedValue and
\* closedWon.
C9_OnlyTargetMonthDeals ==
    Returned =>
        ForecastFields(metrics)
          = ForecastFields(calculateForecast(InTargetMonthOnly, targetDate,
                                             history, clock))

\* a call over one deal closing in the target month and one closing outside it
C9_Witness ==
    /\ Returned
    /\ metrics.pipelineValue > 0
    /\ \E i \in 1..Len(deals) : ~ClosesInTargetMonth(deals[i])
    /\ \E i \in 1..Len(deals) : ClosesInTargetMonth(deals[i])

\* C10: winRate is wonCount / (wonCount + lostCount) x 100 over the deals in
\* stage WON and LOST of all months (3 WON and 1 LOST give 75), and 0 when no
\* deal is WON or LOST.
C10_WinRate ==
    (Returned /\ AllCanonical) =>
        LET wonCount == CountWhere(deals, LAMBDA d : d.stage = "WON")
            lostCount == CountWhere(deals, LAMBDA d : d.stage = "LOST")
        IN  metrics.winRate
              = (IF wonCount + lostCount = 0 THEN FromInt(0)
                 ELSE Div(100 * wonCount, wonCount + lostCount))


\* the deals that pass the hygiene test of the specification
IsComplete(d) ==
    /\ d.stage # ""
    /\ d.confidence # ""
    /\ d.nextStep # ""
    /\ d.nextStepDate # EmptyString
    /\ d.closeDate # EmptyString
    /\ d.amount > 0
\* 100 x count / total as a number, 100 when total is 0
PercentOr100(count, total) ==
    IF total = 0 THEN FromInt(100) ELSE Div(100 * count, total)

\* C11: hygieneScore is 100 x (active deals with non-empty stage, confidence,
\* nextStep, nextStepDate and closeDate and amount > 0) / (active deals), where
\* active means stage not WON and not LOST, and 100 when no deal is active.
C11_HygieneScore ==
    (Returned /\ AllCanonical) =>
        metrics.hygieneScore
          = PercentOr100(CountWhere(deals, LAMBDA d : IsActive(d) /\ IsComplete(d)),
                         CountWhere(deals, IsActive))

\* ticks from the last activity of d to the clock; d has a readable date
HasActivityDate(d) == parseISO(d.lastActivityDate).valid
TicksSinceActivity(d) == clock.t - parseISO(d.lastActivityDate).t
\* at most 7 whole days: fewer than 8 days have passed
ActiveWithin7Days(d) ==
    IsActive(d) /\ HasActivityDate(d)
                /\ TicksSinceActivity(d) < (STALE_THRESHOLD_DAYS + 1) * TicksPerDay

\* C12: freshnessScore is 100 x (active deals whose lastActivityDate is at
\* most 7 whole days before now) / (active deals), and 100 when no deal is
\* active.
C12_FreshnessScore ==
    (Returned /\ AllCanonical) =>
        metrics.freshnessScore
          = PercentOr100(CountWhere(deals, ActiveWithin7Days),
                         CountWhere(deals, IsActive))

\* what a history row adds to the percentage: |actual - forecasted| / |actual| x 100
RowPercentError(row) == Div(100 * Abs(row.actual - row.forecasted), Abs(row.actual))
RECURSIVE SumPercentError(_)
SumPercentError(hist) ==
    IF hist = <<>> THEN FromInt(0)
    ELSE FAdd(RowPercentError(Head(hist)), SumPercentError(Tail(hist)))

\* C13: mape is the mean over all history rows of
\* |actual - forecasted| / |actual| x 100 (a row with forecasted 90000 and
\* actual 100000 contributes 10), and mape is 0 for an empty history.
C13_Mape ==
    Returned =>
        /\ history = <<>> => metrics.mape = FromInt(0)
        /\ history # <<>> =>
               metrics.mape = FDivInt(SumPercentError(history), Len(history))
        /\ \A i \in 1..Len(history) :
               (history[i].forecasted = 90000 /\ history[i].actual = 100000)
                   => RowPercentError(history[i]) = FromInt(10)

\* a call with two rows, one forecast below and one above the actual revenue
C13_Witness ==
    /\ Returned
    /\ Len(history) = 2
    /\ history[1].forecasted = 90000 /\ history[1].actual = 100000
    /\ history[2].forecasted = 110000 /\ history[2].actual = 100000
    /\ metrics.mape = FromInt(10)

\* C14: when a history row has actual = 0 the engine still returns a defined
\* mape, never NaN and never infinite.
C14_MapeDefinedForZeroActual ==
    (Returned /\ \E i \in 1..Len(history) : history[i].actual = 0)
        => IsFinite(metrics.mape)

\* C15: momGrowth is (last.actual - prev.actual) / prev.actual x 100 for the
\* last two entries of the history (actuals 100000 then 120000 give 20), and
\* 0 whenever the history has fewer than two entries or prev.actual is 0.
C15_MomGrowth ==
    Returned =>
        LET n == Len(history)
        IN  metrics.momGrowth
              = (IF n < 2 \/ history[n - 1].actual = 0 THEN FromInt(0)
                 ELSE Div(100 * (history[n].actual - history[n - 1].actual),
                          history[n - 1].actual))

HealthFields(m) ==
    <<m.winRate, m.hygieneScore, m.freshnessScore, m.mape, m.momGrowth>>

\* C16: winRate, hygieneScore, freshnessScore, mape and momGrowth do not
\* depend on the target month: with the same deals, history and now, a call
\* for any other target month returns the same five values.
C16_HealthIgnoresTargetMonth ==
    Returned =>
        \A other \in TargetDates :
            HealthFields(calculateForecast(deals, other, history, clock))
              = HealthFields(metrics)

\* a call whose forecast for another month differs, over deals that are not
\* all complete
C16_Witness ==
    /\ Returned
    /\ deals # <<>>
    /\ metrics.hygieneScore # FromInt(100)
    /\ \E other \in TargetDates :
           ForecastFields(calculateForecast(deals, other, history, clock))
             # ForecastFields(metrics)

StaleFiltered == pc \in {"stale", "risk"}
RiskComputed == pc = "risk"

\* C17: a deal is stale if and only if the number of whole days between now
\* and its lastActivityDate is strictly greater than 7: last active exactly 7
\* days ago is not stale, 8 days ago is stale.
C17_StaleAfterSevenWholeDays ==
    StaleFiltered =>
        /\ \A i \in 1..Len(staleDeals) : \E j \in 1..Len(deals) : staleDeals[i] = deals[j]
        /\ \A i \in 1..Len(deals) :
               HasActivityDate(deals[i]) =>
                   ((\E j \in 1..Len(staleDeals) : staleDeals[j] = deals[i])
                       <=> TicksSinceActivity(deals[i])
                             >= (STALE_THRESHOLD_DAYS + 1) * TicksPerDay)

\* the filter kept a deal last active 8 days ago and dropped one last active
\* exactly 7 days ago
C17_Witness ==
    /\ StaleFiltered
    /\ \E i, j \in 1..Len(deals) :
           /\ TicksSinceActivity(deals[i]) = 7 * TicksPerDay
           /\ TicksSinceActivity(deals[j]) = 8 * TicksPerDay
           /\ \A k \in 1..Len(staleDeals) : staleDeals[k] # deals[i]
           /\ \E k \in 1..Len(staleDeals) : staleDeals[k] = deals[j]

\* the largest sum of the amounts of at most two of the deals, none counting as 0
Top2Sum ==
    LET idx == 1..Len(deals)
        pairs == {p \in idx \X idx : p[1] # p[2]}
        sums == {deals[p[1]].amount + deals[p[2]].amount : p \in pairs}
    IN  IF Len(deals) = 0 THEN 0
        ELSE IF Len(deals) = 1 THEN deals[1].amount
        ELSE CHOOSE sum \in sums : \A other \in sums : other <= sum

\* C18: the concentration risk is false whenever totalValue = 0, for any
\* deals; otherwise it is true if and only if the sum of the two largest
\* amounts (a missing first or second deal counting as 0) divided by
\* totalValue is strictly greater than 0.30, so exactly 0.30 is not a risk.
C18_ConcentrationRisk ==
    RiskComputed =>
        /\ totalValue = 0 => ~concentrationRisk
        /\ totalValue > 0 => (concentrationRisk <=> 10 * Top2Sum > 3 * totalValue)
        /\ totalValue < 0 => (concentrationRisk <=> 10 * Top2Sum < 3 * totalValue)

\* three deals whose two largest amounts are exactly 0.30 of the total, a
\* smaller deal coming first
C18_Witness ==
    /\ RiskComputed
    /\ Len(deals) = 3
    /\ deals[1].amount < deals[2].amount
    /\ totalValue # 0
    /\ 10 * Top2Sum = 3 * totalValue
    /\ ~concentrationRisk

\* C19: the engine is deterministic in its declared inputs: calls with the
\* same deals, target month and history return the same metrics, now being
\* supplied and not read from the system clock inside the call.
C19_DeterministicInDeclaredInputs ==
    Returned =>
        \A systemClock \in Clocks :
            calculateForecast(deals, targetDate, history, systemClock) = metrics

\* C20: no call of calculateForecast, isDealStale or getConcentrationRisk
\* changes its inputs: after the call the deal collection and the history
\* collection have the same elements in the same order with the same fields.
C20_InputsUnchanged == [][deals' = deals /\ history' = history]_vars

\* all three functions were called on deals that are not in descending order
\* of amount
C20_Witness ==
    /\ RiskComputed
    /\ metrics # NoMetrics
    /\ Len(deals) >= 2
    /\ deals[1].amount < deals[2].amount
    /\ history # <<>>


\* a date field the engine reads does not parse
HasMalformedDate(d) ==
    \/ ~parseISO(d.closeDate).valid
    \/ ~parseISO(d.lastActivityDate).valid
    \/ ~parseISO(d.nextStepDate).valid
\* the call handed back a metrics record
ReturnedMetricsRecord == Returned /\ "conservative" \in DOMAIN metrics

\* C21: when closeDate, lastActivityDate or nextStepDate of a deal fails to
\* parse, the engine signals an error and returns no metrics record; it never
\* computes a result from the malformed date.
C21_MalformedDateSignalsError ==
    (Returned /\ \E i \in 1..Len(deals) : HasMalformedDate(deals[i]))
        => ~ReturnedMetricsRecord

\* C29: with non-negative amounts closedWon <= conservative and
\* optimistic <= pipelineValue: realized revenue is part of every tier, and
\* no deal is counted both in base and in optimisticDelta.
C29_RealizedInEveryTier ==
    (Returned /\ NonNegativeAmounts) =>
        /\ metrics.closedWon <= metrics.conservative
        /\ metrics.closedWon <= metrics.base
        /\ metrics.closedWon <= metrics.optimistic
        /\ metrics.optimistic <= metrics.pipelineValue
        /\ \A i \in 1..Len(deals) :
               ~(countedInBase(deals[i], clock) /\ inOptimisticDelta(deals[i], clock))

\* a call with realized revenue and a deal counted in optimisticDelta only
C29_Witness ==
    /\ Returned
    /\ NonNegativeAmounts
    /\ 0 < metrics.closedWon
    /\ metrics.closedWon = metrics.base
    /\ metrics.base < metrics.optimistic
    /\ metrics.optimistic = metrics.pipelineValue

\* C30: for a fixed now an active deal is counted as fresh by
\* calculateForecast if and only if isDealStale is false for it, so
\* freshnessScore = 100 x (active - stale active) / active whenever at least
\* one deal is active.
C30_FreshIffNotStale ==
    Returned =>
        LET active == activeDeals(deals)
            staleActive == SelectSeq(active, LAMBDA d : isDealStale(d, clock))
        IN  Len(active) > 0 =>
                metrics.freshnessScore
                  = Div(100 * (Len(active) - Len(staleActive)), Len(active))


\* C23: deal ids are unique and stable in the store: after any sequence of
\* addDeal and updateDeal calls no two deals in the store have the same id
\* (and updateDeal never changes the id of the deal it updates).
C23_UniqueIds ==
    \A i, j \in 1..Len(DEALS) : DEALS[i].id = DEALS[j].id => i = j

\* what updateDeal(id, updates) has to leave behind
UpdateDealEffect(id, updates) ==
    LET hits == {i \in 1..Len(DEALS) : DEALS[i].id = id}
    IN  IF hits = {}
        THEN returned' = Null /\ DEALS' = DEALS
        ELSE LET index == CHOOSE i \in hits : \A j \in hits : i <= j
             IN  /\ Len(DEALS') = Len(DEALS)
                 /\ \A j \in 1..Len(DEALS) : j # index => DEALS'[j] = DEALS[j]
                 /\ DOMAIN DEALS'[index] = DOMAIN DEALS[index] \cup DOMAIN updates
                 /\ \A f \in DOMAIN DEALS'[index] \ {"updatedAt"} :
                        DEALS'[index][f]
                          = (IF f \in DOMAIN updates THEN updates[f]
                             ELSE DEALS[index][f])
                 /\ DEALS'[index].updatedAt = toISOString(clock)
                 /\ returned' = DEALS'[index]

\* C24: updateDeal(id, updates) with an id not in the store returns null and
\* leaves the store unchanged; with an id in the store it replaces only that
\* deal by the merge of the old deal and updates with a fresh updatedAt,
\* keeping the number of deals, its position and every other deal.
C24_UpdateDeal ==
    [][\A id \in UpdateIds : \A updates \in UpdateInputs :
           UpdateDeal(id, updates) => UpdateDealEffect(id, updates)]_vars

\* updateDeal returned the second of two deals with a new title and a fresh
\* updatedAt, the first deal being as it was seeded
C24_Witness ==
    /\ page = "none"
    /\ Len(DEALS) = 2
    /\ returned = DEALS[2]
    /\ returned.title = <<"A">>
    /\ returned.updatedAt = toISOString(clock)
    /\ DEALS[1].updatedAt = SeedTime


\* a deal of the store with another id has the title, up to letter case and
\* surrounding whitespace
TitleTaken(title, exceptId) ==
    \E i \in 1..Len(DEALS) :
        /\ DEALS[i].id # exceptId
        /\ toLowerCase(trim(DEALS[i].title)) = toLowerCase(trim(title))

\* C22: saving an opportunity from the pipeline form or the account form is
\* rejected with a title error and leaves the store unchanged whenever another
\* deal already has the same title ignoring letter case and surrounding
\* whitespace (hence no two deals saved through the forms share such a title).
C22_DuplicateTitleRejected ==
    [][/\ (HandleSaveDeal /\ TitleTaken(editForm.title, editingDeal.id))
            => (DEALS' = DEALS /\ errors'.title # "")
       /\ (HandleSaveNewDeal /\ TitleTaken(newDealForm.title, UndefinedId))
            => (DEALS' = DEALS /\ addDealErrors'.title # "")]_vars

\* the list the Pipeline page shows
PipelineList == pageDeals(deals, DEALS, sameArray)
\* the fields of the pipeline form that fail validation
TitleFails ==
    \/ trim(editForm.title) = <<>>
    \/ \E i \in 1..Len(PipelineList) :
           /\ PipelineList[i].id # editingDeal.id
           /\ toLowerCase(PipelineList[i].title) = toLowerCase(trim(editForm.title))
AmountFails == editForm.amount < 0
ProbabilityFails == editForm.probability < 0 \/ editForm.probability > 100
AccountFails == isNewDeal /\ editForm.accountId = ""

\* C25: a save from the pipeline form that fails validation (empty title,
\* duplicate title, negative amount, probability outside 0..100, or a new
\* deal without an account) changes neither the store nor the page's deal
\* list, records an error for each failing field, and leaves the dialog open.
C25_FailedSaveChangesNothing ==
    [][(HandleSaveDeal /\ (TitleFails \/ AmountFails \/ ProbabilityFails \/ AccountFails))
           => /\ DEALS' = DEALS
              /\ pageDeals(deals', DEALS', sameArray') = PipelineList
              /\ editingDeal' = editingDeal
              /\ editingDeal' # Null
              /\ TitleFails => errors'.title # ""
              /\ AmountFails => errors'.amount # ""
              /\ ProbabilityFails => errors'.probability # ""
              /\ AccountFails => errors'.accountId # ""]_vars

\* a rejected save of an edited deal: duplicate title, negative amount and a
\* probability above 100, the dialog still open
C25_Witness ==
    /\ page = "pipeline"
    /\ editingDeal # Null
    /\ ~isNewDeal
    /\ errors.title = "An opportunity with this name already exists"
    /\ errors.amount = "Amount cannot be negative"
    /\ errors.probability = "Probability must be between 0 and 100"
    /\ Len(DEALS) = 2

\* C27: after any sequence of accepted add and edit saves on the Pipeline
\* page, the page's deal list contains each deal of the store exactly once:
\* no deal id appears twice in it and it is as long as the store.
C27_PipelineListMatchesStore ==
    page = "pipeline" =>
        /\ Len(PipelineList) = Len(DEALS)
        /\ \A i, j \in 1..Len(PipelineList) :
               PipelineList[i].id = PipelineList[j].id => i = j
        /\ \A i \in 1..Len(DEALS) :
               \E j \in 1..Len(PipelineList) : PipelineList[j] = DEALS[i]


\* last activity more than 7 whole days before the clock
StaleAt(deal, now) ==
    /\ parseISO(deal.lastActivityDate).valid
    /\ now.t - parseISO(deal.lastActivityDate).t >= 8 * TicksPerDay
\* p is a bijection between the positions of two lists of equal elements
IsPermutationOf(a, b) ==
    /\ Len(a) = Len(b)
    /\ \E p \in [1..Len(a) -> 1..Len(a)] :
           /\ \A i, j \in 1..Len(a) : p[i] = p[j] => i = j
           /\ \A i \in 1..Len(a) : a[i] = b[p[i]]

\* C26: in the My Week priority list every stale deal is ranked before every
\* non-stale deal, deals of equal staleness are ranked by non-increasing
\* amount, the list is a permutation of the page's deals, and sorting leaves
\* the page's deal list and the store in their order.
C26_PriorityRanking ==
    [][RenderMyWeek =>
         /\ \A i, j \in 1..Len(priorityDeals') :
                /\ (StaleAt(priorityDeals'[i], clock) /\ ~StaleAt(priorityDeals'[j], clock))
                       => i < j
                /\ (i < j /\ StaleAt(priorityDeals'[i], clock) = StaleAt(priorityDeals'[j], clock))
                       => priorityDeals'[i].amount >= priorityDeals'[j].amount
         /\ IsPermutationOf(priorityDeals', deals)
         /\ deals' = deals
         /\ DEALS' = DEALS]_vars

\* a rendered list of three deals in which a stale deal precedes a larger
\* non-stale one, two deals of equal staleness differ in amount, and the
\* store is in another order than the list
C26_Witness ==
    /\ page = "myweek"
    /\ pc = "myweek"
    /\ Len(priorityDeals) = 3
    /\ StaleAt(priorityDeals[1], clock)
    /\ ~StaleAt(priorityDeals[2], clock)
    /\ priorityDeals[1].amount < priorityDeals[2].amount
    /\ priorityDeals[2].amount > priorityDeals[3].amount
    /\ DEALS # priorityDeals


\* C28: the Dashboard only reads the deal store: rendering it and opening any
\* of its risk or coaching drill-downs leaves the list returned by getDeals()
\* with the same deals in the same order.
C28_DashboardReadsOnly ==
    [][(\/ RenderDashboard
        \/ SetSelectedMonth
        \/ OpenConcentrationRisk
        \/ OpenStaleDeals
        \/ OpenLowFreshness
        \/ OpenCoaching) => DEALS' = DEALS]_vars

====
